---- MODULE Spec2Model ----
(***************************************************************************)
(* Hashtag Clusters Explorer (explore_app_streamlit.py).                   *)
(*                                                                         *)
(* Python strings are sequences of one-character strings.  The module      *)
(* holds the literal-string cleaner (clean_itemset_string), the cached     *)
(* loader (load_data) and the script body that renders the page.           *)
(***************************************************************************)
EXTENDS Integers, Sequences, FiniteSets, TLC

VARIABLES
    arg,        \* the input of the function called on its own
    res,        \* what that call did: NotCalled, a return or a raise
    fs,         \* the files of the output directory
    cache,      \* st.cache_data's entries for load_data, by output_dir
    widget,     \* the cluster picked in the sidebar selectbox, if any
    last,       \* the latest load_data call: what it gave and what it read
    page,       \* what the latest script run put on the page
    session     \* history: the first load_data return, the first render pass

appVars == <<fs, cache, widget, last, page, session>>
vars == <<arg, res, fs, cache, widget, last, page, session>>

----------------------------------------------------------------------------
(* Characters.                                                             *)

SQ == "'"
DQ == "\""

Letters == {"a", "b", "e", "f", "n", "o", "r", "s", "t", "z"}
Digits == {"1"}
Quotes == {SQ, DQ}
Braces == {"{", "}"}
Brackets == {"[", "]"}
Chars == Letters \cup Digits \cup Quotes \cup Braces \cup Brackets
            \cup {"(", ")", ",", " ", "#"}

\* Code point of a character: Python orders strings by code point.
Ord(c) ==
    CASE c = " " -> 32 [] c = DQ -> 34 [] c = "#" -> 35 [] c = SQ -> 39
      [] c = "(" -> 40 [] c = ")" -> 41 [] c = "," -> 44 [] c = "1" -> 49
      [] c = "[" -> 91 [] c = "]" -> 93 [] c = "a" -> 97 [] c = "b" -> 98
      [] c = "e" -> 101 [] c = "f" -> 102 [] c = "n" -> 110 [] c = "o" -> 111
      [] c = "r" -> 114 [] c = "s" -> 115 [] c = "t" -> 116 [] c = "z" -> 122
      [] c = "{" -> 123 [] c = "}" -> 125

\* s < t for Python strings.
RECURSIVE StrLess(_, _)
StrLess(s, t) ==
    IF t = <<>> THEN FALSE
    ELSE IF s = <<>> THEN TRUE
    ELSE IF Head(s) = Head(t) THEN StrLess(Tail(s), Tail(t))
    ELSE Ord(Head(s)) < Ord(Head(t))

\* s.startswith(p), s.endswith(p)
StartsWith(s, p) == Len(s) >= Len(p) /\ SubSeq(s, 1, Len(p)) = p
EndsWith(s, p) == Len(s) >= Len(p) /\ SubSeq(s, Len(s) - Len(p) + 1, Len(s)) = p

\* s.replace(p, ""): every non-overlapping occurrence of p, left to right.
RECURSIVE Remove(_, _)
Remove(s, p) ==
    IF Len(s) < Len(p) THEN s
    ELSE IF SubSeq(s, 1, Len(p)) = p THEN Remove(SubSeq(s, Len(p) + 1, Len(s)), p)
    ELSE <<Head(s)>> \o Remove(Tail(s), p)

\* sep.join(items)
RECURSIVE Join(_, _)
Join(items, sep) ==
    IF items = <<>> THEN <<>>
    ELSE IF Len(items) = 1 THEN items[1]
    ELSE items[1] \o sep \o Join(Tail(items), sep)

\* sorted(items) for a list of strings (insertion into a sorted list).
RECURSIVE Insert(_, _)
Insert(x, sorted) ==
    IF sorted = <<>> THEN <<x>>
    ELSE IF StrLess(x, Head(sorted)) THEN <<x>> \o sorted
    ELSE <<Head(sorted)>> \o Insert(x, Tail(sorted))

RECURSIVE Sorted(_)
Sorted(items) ==
    IF items = <<>> THEN <<>>
    ELSE Insert(items[Len(items)], Sorted(SubSeq(items, 1, Len(items) - 1)))

----------------------------------------------------------------------------
(* ast.literal_eval on the text line 26 hands it: brace-free (line 20 has  *)
(* removed '{' and '}'), starting with '[' and ending with ']'.            *)
(* First the tokens of the text, then the expression they spell.           *)

IdentChars == Letters \cup Digits

\* Index of the first position >= i where p occurs in s, 0 when none.
RECURSIVE Find(_, _, _)
Find(s, p, i) ==
    IF i + Len(p) - 1 > Len(s) THEN 0
    ELSE IF SubSeq(s, i, i + Len(p) - 1) = p THEN i
    ELSE Find(s, p, i + 1)

\* First position >= i whose character is not in set, Len(s)+1 when none.
RECURSIVE SkipWhile(_, _, _)
SkipWhile(s, set, i) ==
    IF i > Len(s) \/ s[i] \notin set THEN i ELSE SkipWhile(s, set, i + 1)

\* A string literal whose body starts at from and whose closing quotes (of
\* the given width) are at close, 0 when there are none.
Literal(s, from, close, width) ==
    IF close = 0 THEN [ok |-> FALSE, body |-> <<>>, next |-> from]
    ELSE [ok |-> TRUE, body |-> SubSeq(s, from, close - 1), next |-> close + width]

\* A string literal opening at the quote s[i]: its body and the position
\* after it.  Three quotes open a triple-quoted literal.
StringAt(s, i) ==
    IF i + 2 <= Len(s) /\ s[i + 1] = s[i] /\ s[i + 2] = s[i]
    THEN Literal(s, i + 3, Find(s, <<s[i], s[i], s[i]>>, i + 3), 3)
    ELSE Literal(s, i + 1, Find(s, <<s[i]>>, i + 1), 1)

StrPrefixes == {<<"r">>}
BytesPrefixes == {<<"b">>, <<"b", "r">>, <<"r", "b">>}

Tk(t, v) == [t |-> t, v |-> v]

\* What the tokenizer rejects: nothing parses past it.
Bad == <<Tk("bad", <<>>)>>

\* The end of a number whose digits end before j: an exponent (e and
\* digits) belongs to it.
NumberEnd(s, j) ==
    IF j + 1 <= Len(s) /\ s[j] = "e" /\ s[j + 1] \in Digits
    THEN SkipWhile(s, Digits, j + 1) ELSE j

RECURSIVE Tokens(_, _)
RECURSIVE StringToken(_, _, _)
RECURSIVE NumberToken(_, _)
RECURSIVE NameToken(_, _, _)

\* The tokens of s from position i on.  A '#' starts a comment that runs to
\* the end of the text.
Tokens(s, i) ==
    IF i > Len(s) THEN <<>>
    ELSE IF s[i] = " " THEN Tokens(s, i + 1)
    ELSE IF s[i] = "#" THEN <<>>
    ELSE IF s[i] \in {"[", "]", "(", ")", ","} THEN <<Tk(s[i], <<>>)>> \o Tokens(s, i + 1)
    ELSE IF s[i] \in Quotes THEN StringToken(s, "str", StringAt(s, i))
    ELSE IF s[i] \in Digits THEN NumberToken(s, NumberEnd(s, SkipWhile(s, Digits, i)))
    ELSE IF s[i] \in Letters THEN NameToken(s, i, SkipWhile(s, IdentChars, i))
    ELSE Bad

\* A literal of kind t (str or bytes), when it is closed.
StringToken(s, t, lit) ==
    IF lit.ok THEN <<Tk(t, lit.body)>> \o Tokens(s, lit.next) ELSE Bad

\* A number ending before k: a letter or digit right after it is an error.
NumberToken(s, k) ==
    IF k <= Len(s) /\ s[k] \in IdentChars THEN Bad
    ELSE <<Tk("num", <<>>)>> \o Tokens(s, k)

\* The name s[i..j-1].  Right before a quote it is a string prefix: r'..' is
\* a str, b'..' is bytes, the rest (f-strings, unknown prefixes) no literal.
NameToken(s, i, j) ==
    IF j <= Len(s) /\ s[j] \in Quotes
    THEN IF SubSeq(s, i, j - 1) \in StrPrefixes THEN StringToken(s, "str", StringAt(s, j))
         ELSE IF SubSeq(s, i, j - 1) \in BytesPrefixes THEN StringToken(s, "bytes", StringAt(s, j))
         ELSE Bad
    ELSE <<Tk("name", SubSeq(s, i, j - 1))>> \o Tokens(s, j)

\* A parsed value: a str (k = "str", s its text), a list (k = "list", items
\* its elements) or anything else (number, bytes, tuple, set).
Val(k, s, items) == [k |-> k, s |-> s, items |-> items]
Other == Val("other", <<>>, <<>>)
Elem(v) == [k |-> IF v.k = "str" THEN "str" ELSE "other", s |-> v.s]
Parsed(next, val) == [ok |-> TRUE, next |-> next, val |-> val]
NoParse == [ok |-> FALSE, next |-> 0, val |-> Other]
NoList == [ok |-> FALSE, next |-> 0, vals |-> <<>>, comma |-> FALSE]

TokAt(toks, i) == IF i <= Len(toks) THEN toks[i].t ELSE "end"

Glue(body, rest) == [next |-> rest.next, body |-> body \o rest.body]

\* Adjacent literals of kind t from token i on are one literal.
RECURSIVE Concat(_, _, _)
Concat(toks, i, t) ==
    IF TokAt(toks, i) = t THEN Glue(toks[i].v, Concat(toks, i + 1, t))
    ELSE [next |-> i, body |-> <<>>]

\* A str or bytes atom; bytes and str side by side are an error.
StringAtom(toks, t, lit) ==
    IF TokAt(toks, lit.next) \in {"str", "bytes"} THEN NoParse
    ELSE Parsed(lit.next, IF t = "str" THEN Val("str", lit.body, <<>>) ELSE Other)

\* [ ... ]
ListAtom(l) == IF l.ok THEN Parsed(l.next, Val("list", <<>>, l.vals)) ELSE NoParse

\* ( ... ): one expression in parentheses is that expression, else a tuple
ParenAtom(l) ==
    IF ~l.ok THEN NoParse
    ELSE IF Len(l.vals) = 1 /\ ~l.comma THEN Parsed(l.next, l.vals[1])
    ELSE Parsed(l.next, Other)

Prepend(val, rest) ==
    IF rest.ok THEN [ok |-> TRUE, next |-> rest.next, vals |-> <<val>> \o rest.vals, comma |-> TRUE]
    ELSE NoList

RECURSIVE Atom(_, _)
RECURSIVE ExprList(_, _, _)
RECURSIVE AfterAtom(_, _, _)

\* One atom at token i.  set() is the one call literal_eval accepts.
Atom(toks, i) ==
    IF TokAt(toks, i) = "num" THEN Parsed(i + 1, Other)
    ELSE IF TokAt(toks, i) \in {"str", "bytes"}
    THEN StringAtom(toks, TokAt(toks, i), Concat(toks, i, TokAt(toks, i)))
    ELSE IF TokAt(toks, i) = "name"
    THEN IF toks[i].v = <<"s", "e", "t">> /\ TokAt(toks, i + 1) = "(" /\ TokAt(toks, i + 2) = ")"
         THEN Parsed(i + 3, Other)
         ELSE NoParse
    ELSE IF TokAt(toks, i) = "[" THEN ListAtom(ExprList(toks, i + 1, "]"))
    ELSE IF TokAt(toks, i) = "(" THEN ParenAtom(ExprList(toks, i + 1, ")"))
    ELSE NoParse

\* Atoms separated by commas up to the closing token (which is consumed);
\* comma tells whether a comma was seen.
ExprList(toks, i, closer) ==
    IF TokAt(toks, i) = closer
    THEN [ok |-> TRUE, next |-> i + 1, vals |-> <<>>, comma |-> FALSE]
    ELSE AfterAtom(toks, closer, Atom(toks, i))

\* An atom followed by anything but a comma or the closing token (a
\* subscript, a call, a second atom) is no literal.
AfterAtom(toks, closer, a) ==
    IF ~a.ok THEN NoList
    ELSE IF TokAt(toks, a.next) = closer
    THEN [ok |-> TRUE, next |-> a.next + 1, vals |-> <<a.val>>, comma |-> FALSE]
    ELSE IF TokAt(toks, a.next) = "," THEN Prepend(a.val, ExprList(toks, a.next + 1, closer))
    ELSE NoList

Elems(vals) == [i \in 1..Len(vals) |-> Elem(vals[i])]

\* The elements of the list or tuple the whole text spells.
Items(top) ==
    IF ~top.ok THEN [ok |-> FALSE, items |-> <<>>]
    ELSE IF Len(top.vals) = 1 /\ ~top.comma THEN [ok |-> TRUE, items |-> Elems(top.vals[1].items)]
    ELSE [ok |-> TRUE, items |-> Elems(top.vals)]

\* ast.literal_eval(s): ok with the elements of the list or tuple s spells,
\* not ok where Python raises ValueError or SyntaxError.
literal_eval(s) == Items(ExprList(Tokens(s, 1), 1, "end"))

----------------------------------------------------------------------------
(* Python values and call outcomes.                                        *)

\* A str value and a non-str value (v is what str() gives for it).
PyStr(s) == [type |-> "str", v |-> s]
PyOther(type, text) == [type |-> type, v |-> text]
NaN == PyOther("float", <<"n", "a", "n">>)
One == PyOther("int", <<"1">>)

NotCalled == [kind |-> "none", v |-> <<>>, exc |-> ""]
Return(s) == [kind |-> "return", v |-> s, exc |-> ""]
Raise(e) == [kind |-> "raise", v |-> <<>>, exc |-> e]

FROZENSET_OPEN == <<"f", "r", "o", "z", "e", "n", "s", "e", "t", "(", "{">>
FROZENSET_CLOSE == <<"}", ")">>

\* Line 20 without its second replace: the closing wrapper stays.
StripWrappersKeepClose(s) ==
    Remove(Remove(Remove(s, FROZENSET_OPEN), <<"{">>), <<"}">>)

\* Line 20: the wrapper tokens, then every brace, are removed.
StripWrappers(s) ==
    Remove(Remove(Remove(Remove(s, FROZENSET_OPEN), FROZENSET_CLOSE), <<"{">>), <<"}">>)

\* Line 32 without its second replace: double quotes stay.
StripSingleQuotes(s) == Remove(s, <<SQ>>)

\* Line 32: the fallback removes both kinds of quote.
StripQuotes(s) == Remove(Remove(s, <<SQ>>), <<DQ>>)

\* Line 25
ListShaped(s) == StartsWith(s, <<"[">>) /\ EndsWith(s, <<"]">>)

\* Line 27: ", ".join(sorted(items)).  sorted() compares the elements and
\* join() takes only str: with an element that is no str one of the two
\* raises TypeError.
JoinSorted(items) ==
    IF \A i \in 1..Len(items) : items[i].k = "str"
    THEN Return(Join(Sorted([i \in 1..Len(items) |-> items[i].s]), <<",", " ">>))
    ELSE Raise("TypeError")

\* Whether the except clause of line 28 catches what the try body raised.
Caught(exc) == exc \in {"ValueError", "SyntaxError"}

Pass == [kind |-> "pass", v |-> <<>>, exc |-> ""]

\* Lines 26-27 on what literal_eval gave
Evaluate(parsed) ==
    IF parsed.ok THEN JoinSorted(parsed.items) ELSE Raise("ValueError")

\* Lines 28-29: a caught exception falls through to line 32
Handle(out) == IF out.kind = "raise" /\ Caught(out.exc) THEN Pass ELSE out

\* Lines 23-29: the try statement
TryParse(clean_str) ==
    IF ListShaped(clean_str) THEN Handle(Evaluate(literal_eval(clean_str))) ELSE Pass

\* Lines 31-33, reached when the try statement did not return or raise
Fallback(clean_str, tried) ==
    IF tried.kind = "pass" THEN Return(StripQuotes(clean_str)) ELSE tried

\* Lines 22-33 on the text of line 20
Cleaned(clean_str) == Fallback(clean_str, TryParse(clean_str))

clean_itemset_string(itemset_str) ==
    IF itemset_str.type # "str" THEN Return(itemset_str.v)
    ELSE Cleaned(StripWrappers(itemset_str.v))

----------------------------------------------------------------------------
(* Tables, texts and the files of the output directory.                    *)
(*                                                                         *)
(* A table is None or its rows.  A row of the primary table is its cluster *)
(* identifier; a row of the rules table holds its index label, the two     *)
(* itemset cells, its cluster and its lift (support and confidence are     *)
(* shown as read and left out); a row of the summary table is opaque.      *)
(* Every CSV file carries the columns of its format.                       *)

NoneTable == [none |-> TRUE, rows |-> <<>>]
Table(rows) == [none |-> FALSE, rows |-> rows]
NoneText == [none |-> TRUE, text |-> ""]
Text(t) == [none |-> FALSE, text |-> t]

Absent == [st |-> "absent", rows |-> <<>>, text |-> ""]
Unreadable == [st |-> "unreadable", rows |-> <<>>, text |-> ""]
CsvFile(rows) == [st |-> "ok", rows |-> rows, text |-> ""]
HtmlFile(text) == [st |-> "ok", rows |-> <<>>, text |-> text]

Rule(idx, antecedents, consequents, cluster, lift) ==
    [idx |-> idx, antecedents |-> antecedents, consequents |-> consequents,
     cluster |-> cluster, lift |-> lift]

\* Path.exists()
Exists(file) == file.st # "absent"

\* pd.read_csv(file)
read_csv(file) ==
    IF file.st = "absent" THEN [kind |-> "raise", exc |-> "FileNotFoundError", rows |-> <<>>]
    ELSE IF file.st = "unreadable" THEN [kind |-> "raise", exc |-> "ParserError", rows |-> <<>>]
    ELSE [kind |-> "return", exc |-> "", rows |-> file.rows]

Range(seq) == {seq[i] : i \in 1..Len(seq)}
Take(seq, n) == SubSeq(seq, 1, IF Len(seq) < n THEN Len(seq) ELSE n)

Min(S) == CHOOSE x \in S : \A y \in S : x <= y

\* sorted(S) for a set of integers
RECURSIVE SortedInts(_)
SortedInts(S) == IF S = {} THEN <<>> ELSE <<Min(S)>> \o SortedInts(S \ {Min(S)})

----------------------------------------------------------------------------
(* load_data, lines 36-72.                                                 *)

CLUSTER_FILE == "clustered_tweets.csv"
SUMMARY_FILE == "cluster_summary.csv"
RULES_FILE == "apriori_rules_ALL_raw.csv"
UMAP_FILE == "interactive_umap_plot.html"
SCATTER_FILE == "apriori_rules_scatterplot.html"
PLOT_GLOB == "top_hashtags_cluster_*.html"

NOT_FOUND_ERROR == "Could not find clustered_tweets.csv"
RULES_WARNING == "Could not load rules file"

\* Line 48
AllNone ==
    [df |-> NoneTable, summary |-> NoneTable, rules |-> NoneTable,
     umap_html_content |-> NoneText, plots_none |-> TRUE, cluster_plot_files |-> <<>>]

\* Series.apply(clean_itemset_string) on one column: the cleaned rows, or
\* not ok when a call raises (the column is then not assigned).
Assign(rows, column, out) ==
    IF \E i \in 1..Len(rows) : out[i].kind = "raise" THEN [ok |-> FALSE, rows |-> rows]
    ELSE [ok |-> TRUE,
          rows |-> [i \in 1..Len(rows) |-> [rows[i] EXCEPT ![column] = PyStr(out[i].v)]]]

ApplyClean(rows, column) ==
    Assign(rows, column, [i \in 1..Len(rows) |-> clean_itemset_string(rows[i][column])])

\* The "except Exception" of line 63: the value of rules where the handler
\* is entered with the rows that were read (cleaned as far as it got).
RulesAfterWarning(rows) == Table(rows)

\* Line 62 done: the rules as cleaned, or the handler of line 63
AfterConsequents(rows, c) ==
    IF ~c.ok THEN [rules |-> RulesAfterWarning(rows), msgs |-> {RULES_WARNING}]
    ELSE [rules |-> Table(c.rows), msgs |-> {}]

\* Line 60 done: on to line 62, or the handler of line 63
AfterAntecedents(rows, a) ==
    IF ~a.ok THEN [rules |-> RulesAfterWarning(rows), msgs |-> {RULES_WARNING}]
    ELSE AfterConsequents(a.rows, ApplyClean(a.rows, "consequents"))

\* Line 57 done: a read that raised leaves rules None
AfterRulesRead(read) ==
    IF read.kind = "raise" THEN [rules |-> NoneTable, msgs |-> {RULES_WARNING}]
    ELSE AfterAntecedents(read.rows, ApplyClean(read.rows, "antecedents"))

\* Lines 54-64: the rules table and the messages of the step.
LoadRules(file) ==
    IF ~Exists(file) THEN [rules |-> NoneTable, msgs |-> {}]
    ELSE AfterRulesRead(read_csv(file))

\* Which exceptions of the primary read line 46 catches.
PrimaryCaught(exc) == exc = "FileNotFoundError"

Returned(value, msgs, reads) ==
    [kind |-> "return", exc |-> "", value |-> value, msgs |-> msgs, reads |-> reads, hit |-> FALSE]
Raised(exc, reads) ==
    [kind |-> "raise", exc |-> exc, value |-> AllNone, msgs |-> {}, reads |-> reads, hit |-> FALSE]

\* Lines 66-72
Result(dir, primary, summary, loaded) ==
    Returned(
        [df |-> Table(primary.rows),
         summary |-> IF summary.kind = "return" THEN Table(summary.rows) ELSE NoneTable,
         rules |-> loaded.rules,
         umap_html_content |-> IF Exists(dir.umap) THEN Text(dir.umap.text) ELSE NoneText,
         plots_none |-> FALSE,
         cluster_plot_files |-> SortedInts(dir.plots)],
        loaded.msgs,
        {CLUSTER_FILE, SUMMARY_FILE, RULES_FILE, UMAP_FILE, PLOT_GLOB})

\* Line 51 done: no handler around the summary read
AfterSummary(dir, primary, summary) ==
    IF summary.kind = "raise" THEN Raised(summary.exc, {CLUSTER_FILE, SUMMARY_FILE})
    ELSE Result(dir, primary, summary, LoadRules(dir.rules))

\* Lines 44-48 done
AfterPrimary(dir, primary) ==
    IF primary.kind = "raise"
    THEN IF PrimaryCaught(primary.exc)
         THEN Returned(AllNone, {NOT_FOUND_ERROR}, {CLUSTER_FILE})
         ELSE Raised(primary.exc, {CLUSTER_FILE})
    ELSE AfterSummary(dir, primary,
                      IF Exists(dir.summary) THEN read_csv(dir.summary)
                      ELSE [kind |-> "none", exc |-> "", rows |-> <<>>])

\* The body of load_data on the directory dir.
LoadBody(dir) == AfterPrimary(dir, read_csv(dir.cluster))

APP_OUTPUT_DIR == "."
Dirs == {APP_OUTPUT_DIR}

NoEntry == [hit |-> FALSE, value |-> AllNone, msgs |-> {}]
Entry(value, msgs) == [hit |-> TRUE, value |-> value, msgs |-> msgs]

\* load_data without its decorator: nothing is ever found in the memo.
NeverCached(memo, output_dir) == FALSE

\* st.cache_data, line 36: whether the memo holds a result for the argument.
Cached(memo, output_dir) == memo[output_dir].hit

\* A call of the decorated load_data: a stored result (with its messages
\* replayed) without running the body, or the body on the directory.
load_data(memo, output_dir, dir) ==
    IF Cached(memo, output_dir)
    THEN [kind |-> "return", exc |-> "", value |-> memo[output_dir].value,
          msgs |-> memo[output_dir].msgs, reads |-> {}, hit |-> TRUE]
    ELSE LoadBody(dir)

\* A memo that stores nothing.
MemoizedNothing(memo, output_dir, call) == memo

\* The memo after the call: a return of the body is stored, a raise is not.
Memoized(memo, output_dir, call) ==
    IF call.kind = "return" /\ ~call.hit
    THEN [memo EXCEPT ![output_dir] = Entry(call.value, call.msgs)]
    ELSE memo

----------------------------------------------------------------------------
(* The script body, lines 78-163.                                          *)

TOP_RULES == 20
SAMPLE_ROWS == 50

MAP_PLACEHOLDER == "Could not find 'interactive_umap_plot.html'."
SCATTER_PLACEHOLDER == "Could not find 'apriori_rules_scatterplot.html'."
PLOT_PLACEHOLDER == "No top hashtags plot found for this cluster."
NO_RULES_FOR_CLUSTER == "No association rules found for this cluster."
NO_RULES_DATA == "No rules data available."

\* A section of the page: content, a placeholder message, or nothing.
Content(text, rows) == [shown |-> "content", text |-> text, rows |-> rows]
Placeholder(message) == [shown |-> "placeholder", text |-> message, rows |-> <<>>]
Omitted == [shown |-> "omitted", text |-> "", rows |-> <<>>]

\* Line 83
Clusters(df) == SortedInts(Range(df.rows))

\* list.index(x), 0-based
Index(seq, x) == Min({i \in 1..Len(seq) : seq[i] = x}) - 1

\* Lines 87-91 with the two tests in the other order.
DefaultIndexNoiseFirst(clusters) ==
    IF -1 \in Range(clusters) THEN Index(clusters, -1)
    ELSE IF 0 \in Range(clusters) THEN Index(clusters, 0)
    ELSE 0

\* Lines 87-91
DefaultIndex(clusters) ==
    IF 0 \in Range(clusters) THEN Index(clusters, 0)
    ELSE IF -1 \in Range(clusters) THEN Index(clusters, -1)
    ELSE 0

NoChoice == [set |-> FALSE, v |-> 0]
Chosen(c) == [set |-> TRUE, v |-> c]

\* Line 93: the picked option while it is one of the options, else the
\* option at the default index.
Selectbox(clusters, index, w) ==
    IF w.set /\ w.v \in Range(clusters) THEN w.v ELSE clusters[index + 1]

\* Lines 99-102
MapSection(umap_html_content) ==
    IF ~umap_html_content.none /\ umap_html_content.text # ""
    THEN Content(umap_html_content.text, <<>>)
    ELSE Placeholder(MAP_PLACEHOLDER)

\* Lines 105-107
SummarySection(summary) ==
    IF ~summary.none THEN Content("", summary.rows) ELSE Omitted

\* Lines 111-115
ScatterSection(dir) ==
    IF Exists(dir.scatter) THEN Content(dir.scatter.text, <<>>)
    ELSE Placeholder(SCATTER_PLACEHOLDER)

PlotText(c) == <<"top_hashtags_cluster", c>>

\* Lines 127-131
PlotSection(dir, selected_cluster) ==
    IF selected_cluster \in dir.plots THEN Content("", PlotText(selected_cluster))
    ELSE Placeholder(PLOT_PLACEHOLDER)

\* Line 137: the rules of a cluster, in the table's order
RECURSIVE ClusterRows(_, _)
ClusterRows(rows, selected_cluster) ==
    IF rows = <<>> THEN <<>>
    ELSE IF Head(rows).cluster = selected_cluster
    THEN <<Head(rows)>> \o ClusterRows(Tail(rows), selected_cluster)
    ELSE ClusterRows(Tail(rows), selected_cluster)

\* Line 143 with ascending=True.
GoesBeforeAscending(x, y, tie) ==
    x.lift < y.lift \/ (x.lift = y.lift /\ tie = "reversed")

\* Whether row x goes before row y of the sorted part.  sort_values is no
\* stable sort: rows of equal lift come out in either order (tie).
GoesBefore(x, y, tie) ==
    x.lift > y.lift \/ (x.lift = y.lift /\ tie = "reversed")

RECURSIVE InsertRule(_, _, _)
InsertRule(x, sorted, tie) ==
    IF sorted = <<>> THEN <<x>>
    ELSE IF GoesBefore(x, Head(sorted), tie) THEN <<x>> \o sorted
    ELSE <<Head(sorted)>> \o InsertRule(x, Tail(sorted), tie)

\* Line 143: sort_values('lift', ascending=False)
RECURSIVE SortByLift(_, _)
SortByLift(rows, tie) ==
    IF rows = <<>> THEN <<>>
    ELSE InsertRule(rows[Len(rows)], SortByLift(SubSeq(rows, 1, Len(rows) - 1), tie), tie)

\* Lines 135-146
RulesTable(cluster_rules, tie) ==
    IF cluster_rules = <<>> THEN Placeholder(NO_RULES_FOR_CLUSTER)
    ELSE Content("", Take(SortByLift(cluster_rules, tie), TOP_RULES))

RulesSection(rules, selected_cluster, tie) ==
    IF rules.none THEN Placeholder(NO_RULES_DATA)
    ELSE RulesTable(ClusterRows(rules.rows, selected_cluster), tie)

\* Line 151: the posts of a cluster, in the table's order
RECURSIVE ClusterPosts(_, _)
ClusterPosts(rows, selected_cluster) ==
    IF rows = <<>> THEN <<>>
    ELSE IF Head(rows) = selected_cluster
    THEN <<Head(rows)>> \o ClusterPosts(Tail(rows), selected_cluster)
    ELSE ClusterPosts(Tail(rows), selected_cluster)

\* Lines 151-160: the posts of the cluster (rows of the primary table are
\* their cluster identifiers), the first SAMPLE_ROWS of them shown
Posts(sub_df) == [total |-> Len(sub_df), sample |-> Take(sub_df, SAMPLE_ROWS)]

PostsSection(df, selected_cluster) == Posts(ClusterPosts(df.rows, selected_cluster))

NoPage ==
    [kind |-> "none", exc |-> "", msgs |-> {}, data |-> AllNone, clusters |-> <<>>,
     selected |-> 0, map |-> Omitted, summary |-> Omitted, scatter |-> Omitted,
     plot |-> Omitted, rules |-> Omitted, posts |-> [total |-> 0, sample |-> <<>>]]

\* An exception no handler catches ends the run.
Crashed(exc) == [NoPage EXCEPT !.kind = "crashed", !.exc = exc]

\* Lines 80-81: st.stop()
Stopped(msgs) == [NoPage EXCEPT !.kind = "stopped", !.msgs = msgs]

\* Lines 83-163 on the loaded data
Sections(data, msgs, dir, tie, clusters, selected_cluster) ==
    [kind |-> "rendered", exc |-> "", msgs |-> msgs, data |-> data,
     clusters |-> clusters, selected |-> selected_cluster,
     map |-> MapSection(data.umap_html_content),
     summary |-> SummarySection(data.summary),
     scatter |-> ScatterSection(dir),
     plot |-> PlotSection(dir, selected_cluster),
     rules |-> RulesSection(data.rules, selected_cluster, tie),
     posts |-> PostsSection(data.df, selected_cluster)]

\* Lines 83-93
Sidebar(data, msgs, w, dir, tie, clusters) ==
    Sections(data, msgs, dir, tie, clusters, Selectbox(clusters, DefaultIndex(clusters), w))

Rendered(data, msgs, w, dir, tie) ==
    Sidebar(data, msgs, w, dir, tie, Clusters(data.df))

\* The page of one run of the script
PageOf(call, w, dir, tie) ==
    IF call.kind = "raise" THEN Crashed(call.exc)
    ELSE IF call.value.df.none THEN Stopped(call.msgs)
    ELSE Rendered(call.value, call.msgs, w, dir, tie)

NoSession ==
    [loaded |-> FALSE, value |-> AllNone, rendered |-> FALSE, scatter |-> Omitted]

\* One run of the script with w picked in the sidebar.
Finish(call, shown) ==
    /\ last' = call
    /\ cache' = Memoized(cache, APP_OUTPUT_DIR, call)
    /\ page' = shown
    /\ widget' = IF shown.kind = "rendered" THEN Chosen(shown.selected) ELSE NoChoice
    /\ session' =
        [loaded |-> session.loaded \/ call.kind = "return",
         value |-> IF ~session.loaded /\ call.kind = "return" THEN call.value
                   ELSE session.value,
         rendered |-> session.rendered \/ shown.kind = "rendered",
         scatter |-> IF ~session.rendered /\ shown.kind = "rendered" THEN shown.scatter
                     ELSE session.scatter]
    /\ UNCHANGED <<fs, arg, res>>

\* Line 78 done: the rest of the script on what load_data gave
AfterLoad(call, w, tie) == Finish(call, PageOf(call, w, fs, tie))

Run(w, tie) == AfterLoad(load_data(cache, APP_OUTPUT_DIR, fs), w, tie)

Ties == {"kept", "reversed"}

\* The session opens, or the script runs again with nothing picked anew.
RunScript == \E tie \in Ties : Run(widget, tie)

\* The user picks another cluster in the sidebar: the script runs again.
SelectCluster(c) ==
    /\ page.kind = "rendered"
    /\ c \in Range(page.clusters)
    /\ c # page.selected
    /\ \E tie \in Ties : Run(Chosen(c), tie)

----------------------------------------------------------------------------
(* The directory and the session.  Files are written and removed by        *)
(* whoever produces the artifacts, at any time between two script runs.    *)

A == <<"a">>
B == <<"b">>

RulesGood ==
    CsvFile(<<Rule(0, PyStr(FROZENSET_OPEN \o <<SQ, "b", SQ, ",", " ", SQ, "a", SQ>> \o FROZENSET_CLOSE),
                      PyStr(<<"[", SQ, "b", SQ, ",", " ", SQ, "a", SQ, "]">>), 0, 2),
              Rule(1, PyStr(A), NaN, 0, 3),
              Rule(2, PyStr(FROZENSET_OPEN \o <<SQ, "a", SQ>> \o FROZENSET_CLOSE),
                      PyStr(<<"[", SQ, "b", SQ, "]">>), 1, 1)>>)

\* A rules file with a numeric list in a consequents cell.
RulesNumeric ==
    CsvFile(<<Rule(0, PyStr(FROZENSET_OPEN \o <<SQ, "a", SQ>> \o FROZENSET_CLOSE),
                      PyStr(<<"[", "1", "]">>), 0, 2)>>)

PlotIds == {0}

FileNames == {"cluster", "summary", "rules", "umap", "scatter"}

FilesOf(name) ==
    CASE name = "cluster" -> {Unreadable, CsvFile(<<0, 1, 0>>)}
      [] name = "summary" -> {CsvFile(<<"summary">>)}
      [] name = "rules" -> {Unreadable, RulesGood, RulesNumeric}
      [] name = "umap" -> {HtmlFile("umap")}
      [] name = "scatter" -> {HtmlFile("scatter")}

Directories ==
    [cluster : FilesOf("cluster") \cup {Absent},
     summary : FilesOf("summary") \cup {Absent},
     rules : FilesOf("rules") \cup {Absent},
     umap : FilesOf("umap") \cup {Absent},
     scatter : FilesOf("scatter") \cup {Absent},
     plots : SUBSET PlotIds]

NoCall ==
    [kind |-> "none", exc |-> "", value |-> AllNone, msgs |-> {}, reads |-> {}, hit |-> FALSE]

Idle == PyStr(<<>>)

Init ==
    /\ fs \in Directories
    /\ cache = [d \in Dirs |-> NoEntry]
    /\ widget = NoChoice
    /\ last = NoCall
    /\ page = NoPage
    /\ session = NoSession
    /\ arg = Idle
    /\ res = NotCalled

WriteFile(name, file) ==
    /\ fs[name] # file
    /\ fs' = [fs EXCEPT ![name] = file]
    /\ UNCHANGED <<cache, widget, last, page, session, arg, res>>

RemoveFile(name) ==
    /\ Exists(fs[name])
    /\ fs' = [fs EXCEPT ![name] = Absent]
    /\ UNCHANGED <<cache, widget, last, page, session, arg, res>>

WritePlot(c) ==
    /\ c \notin fs.plots
    /\ fs' = [fs EXCEPT !.plots = @ \cup {c}]
    /\ UNCHANGED <<cache, widget, last, page, session, arg, res>>

RemovePlot(c) ==
    /\ c \in fs.plots
    /\ fs' = [fs EXCEPT !.plots = @ \ {c}]
    /\ UNCHANGED <<cache, widget, last, page, session, arg, res>>

Next ==
    \/ RunScript
    \/ \E c \in Range(page.clusters) : SelectCluster(c)
    \/ \E name \in FileNames : \E file \in FilesOf(name) : WriteFile(name, file)
    \/ \E name \in FileNames : RemoveFile(name)
    \/ \E c \in PlotIds : WritePlot(c)
    \/ \E c \in PlotIds : RemovePlot(c)

Spec == Init /\ [][Next]_vars

AtRest ==
    /\ fs = [cluster |-> Absent, summary |-> Absent, rules |-> Absent, umap |-> Absent,
             scatter |-> Absent, plots |-> {}]
    /\ cache = [d \in Dirs |-> NoEntry]
    /\ widget = NoChoice
    /\ last = NoCall
    /\ page = NoPage
    /\ session = NoSession

----------------------------------------------------------------------------
(* The cleaner on its own: every input of a bounded set, one call each.    *)
(* An input carries the terms it was written from (none for a raw text).   *)

MaxLen == 4
MaxTerms == 3
MaxTermLen == 1

Alphabet == {"a", "1", SQ, DQ, "[", "]", "}", ","}
TermAlphabet == {"a", "b"}

StringsOver(alphabet, lo, hi) == UNION {[1..n -> alphabet] : n \in lo..hi}

Terms == StringsOver(TermAlphabet, 1, MaxTermLen)
TermLists == UNION {[1..n -> Terms] : n \in 2..MaxTerms}

Quoted(term) == <<SQ>> \o term \o <<SQ>>
QuotedList(terms) == Join([i \in 1..Len(terms) |-> Quoted(terms[i])], <<",", " ">>)

\* "frozenset({'X', 'Y'})" and "['X', 'Y']"
FrozensetForm(terms) == FROZENSET_OPEN \o QuotedList(terms) \o FROZENSET_CLOSE
ListForm(terms) == <<"[">> \o QuotedList(terms) \o <<"]">>

Input(value, form, terms) == [type |-> value.type, v |-> value.v, form |-> form, terms |-> terms]

CleanInputs ==
    {Input(PyStr(s), "raw", <<>>) : s \in StringsOver(Alphabet, 0, MaxLen)}
      \cup {Input(PyStr(FrozensetForm(ts)), "frozenset", ts) : ts \in TermLists}
      \cup {Input(PyStr(ListForm(ts)), "list", ts) : ts \in TermLists}
      \cup {Input(NaN, "raw", <<>>), Input(One, "raw", <<>>)}

CleanInit ==
    /\ arg \in CleanInputs
    /\ res = NotCalled
    /\ AtRest

Clean ==
    /\ res = NotCalled
    /\ res' = clean_itemset_string(arg)
    /\ UNCHANGED <<arg, appVars>>

CleanNext == Clean

SpecClean == CleanInit /\ [][CleanNext]_vars

----------------------------------------------------------------------------
(* The cluster selector and the rules filter on their own: a primary table *)
(* or a rules table of a bounded set, one call each.                       *)

MaxRows == 3
MaxRules == 22
LiftMod == 5

ClusterIds == -2..2

PrimaryTables == StringsOver(ClusterIds, 1, MaxRows)

\* n rules over m clusters, the lift of rule i being (a * i + b) % LiftMod
RulesOf(n, m, a, b) ==
    [i \in 1..n |-> Rule(i - 1, PyStr(A), PyStr(B), i % m, (a * i + b) % LiftMod)]

RulesTables ==
    {RulesOf(n, m, a, b) : n \in 0..MaxRules, m \in 1..2, a \in 0..3, b \in 0..1}

SelectInputs ==
    {[type |-> "df", v |-> rows, rules |-> <<>>] : rows \in PrimaryTables}
      \cup {[type |-> "rules", v |-> <<>>, rules |-> rows] : rows \in RulesTables}

SelectInit ==
    /\ arg \in SelectInputs
    /\ res = NotCalled
    /\ AtRest

\* Lines 83-93 at session start: nothing is picked yet.
SelectDefault ==
    /\ arg.type = "df"
    /\ res.kind = "none"
    /\ res' = [kind |-> "return", exc |-> "",
               v |-> <<Selectbox(Clusters(Table(arg.v)), DefaultIndex(Clusters(Table(arg.v))), NoChoice)>>]
    /\ UNCHANGED <<arg, appVars>>

\* Lines 135-146 for the selected cluster c.
ShowRules(c, tie) ==
    /\ arg.type = "rules"
    /\ res.kind = "none"
    /\ res' = [kind |-> "return", exc |-> "", v |-> <<c, RulesSection(Table(arg.rules), c, tie)>>]
    /\ UNCHANGED <<arg, appVars>>

SelectNext ==
    \/ SelectDefault
    \/ \E c \in 0..2 : \E tie \in Ties : ShowRules(c, tie)

SpecSelect == SelectInit /\ [][SelectNext]_vars

----------------------------------------------------------------------------
(* Properties of clean_itemset_string, under SpecClean.                    *)

CommaSpace == <<",", " ">>
HasAny(s, set) == \E i \in 1..Len(s) : s[i] \in set

\* C1, as stated: for an input "frozenset({'X', 'Y'})" of two or more
\* quoted terms the call returns the terms joined by ", " in sorted order.
C1_SortedOrder ==
    (arg.form = "frozenset" /\ res.kind # "none")
        => res = Return(Join(Sorted(arg.terms), CommaSpace))

\* C1, amended: for an input "frozenset({'X', 'Y'})" of two or more quoted
\* terms the call returns the terms joined by ", " in the order they are
\* written in.
C1_WrittenOrder ==
    (arg.form = "frozenset" /\ res.kind # "none")
        => res = Return(Join(arg.terms, CommaSpace))

\* "frozenset({'b', 'a'})" has been cleaned to "b, a".
C1_Witness ==
    /\ arg.form = "frozenset"
    /\ arg.terms = <<B, A>>
    /\ res = Return(<<"b", ",", " ", "a">>)

\* C2: clean_itemset_string never raises, whatever its input.
C2_NeverRaises == res.kind # "raise"

\* C3, as stated: for a string input the returned value holds no quote, no
\* brace and no bracket.
C3_NoLiteralSyntax ==
    (arg.type = "str" /\ res.kind = "return")
        => ~HasAny(res.v, Quotes \cup Braces \cup Brackets)

\* The call on text ends in the fallback of lines 31-33: the stripped text
\* is not list-shaped, or it is and literal_eval rejects it.
FallbackTaken(text) ==
    \/ ~ListShaped(StripWrappers(text))
    \/ ~literal_eval(StripWrappers(text)).ok

\* C3, amended: for a string input whose cleaning ends in the fallback the
\* returned value holds no quote and no brace (brackets can stay).
C3_FallbackStripsQuotesAndBraces ==
    (arg.type = "str" /\ res.kind = "return" /\ FallbackTaken(arg.v))
        => ~HasAny(res.v, Quotes \cup Braces)

\* A text with a quote and a brace went through the fallback, which left a
\* bracket in the result.
C3_Witness ==
    /\ arg.type = "str"
    /\ res.kind = "return"
    /\ FallbackTaken(arg.v)
    /\ HasAny(arg.v, Quotes)
    /\ HasAny(arg.v, Braces)
    /\ HasAny(res.v, Brackets)

----------------------------------------------------------------------------
(* Properties of the selector and the rules filter, under SpecSelect.      *)

\* C7: the default selection is 0 if 0 is a cluster identifier of the
\* table, otherwise -1 if -1 is one, otherwise the smallest identifier; it
\* is always one of the identifiers.
C7_DefaultSelection ==
    (arg.type = "df" /\ res.kind = "return") =>
        LET ids == Range(arg.v)
            sel == res.v[1]
        IN  /\ sel \in ids
            /\ 0 \in ids => sel = 0
            /\ (0 \notin ids /\ -1 \in ids) => sel = -1
            /\ (0 \notin ids /\ -1 \notin ids) => \A c \in ids : sel <= c

\* A table with the identifiers -2, -1 and 1: -1 is selected, not the
\* smallest.
C7_Witness ==
    /\ arg.type = "df"
    /\ res.kind = "return"
    /\ Range(arg.v) = {-2, -1, 1}
    /\ res.v[1] = -1

\* C8: the rules shown for the selected cluster are rules of that cluster,
\* in order of non-increasing lift, at most 20, and no rule of the cluster
\* that is left out has a greater lift than one shown; when the cluster has
\* no rule, the "no rules for this cluster" message is shown instead.
C8_TopRules ==
    (arg.type = "rules" /\ res.kind = "return") =>
        LET c == res.v[1]
            section == res.v[2]
            ofCluster == {r \in Range(arg.rules) : r.cluster = c}
        IN  IF ofCluster = {} THEN section = Placeholder(NO_RULES_FOR_CLUSTER)
            ELSE /\ section.shown = "content"
                 /\ section.rows # <<>>
                 /\ Len(section.rows) <= 20
                 /\ Range(section.rows) \subseteq ofCluster
                 /\ \A i, j \in 1..Len(section.rows) :
                        i < j => section.rows[i].lift >= section.rows[j].lift
                 /\ \A r \in ofCluster \ Range(section.rows) :
                        \A d \in Range(section.rows) : r.lift <= d.lift

\* More than 20 rules of the selected cluster, of several lifts: 20 are
\* shown and some are left out.
C8_Witness ==
    /\ arg.type = "rules"
    /\ res.kind = "return"
    /\ Len(res.v[2].rows) = 20
    /\ \E r \in Range(arg.rules) : r.cluster = res.v[1] /\ r \notin Range(res.v[2].rows)
    /\ res.v[2].rows[1].lift > res.v[2].rows[20].lift

----------------------------------------------------------------------------
(* Properties of the session, under Spec.                                  *)

\* A step that runs the script leaves the directory as it is; every other
\* step writes or removes a file.
ScriptRuns == fs' = fs

\* C4: when clustered_tweets.csv is absent or unreadable, load_data reports
\* the error and returns the all-None result, and the script stops without
\* an unhandled exception.
C4_PrimaryFailureStops ==
    [][(ScriptRuns /\ ~Cached(cache, APP_OUTPUT_DIR) /\ fs.cluster.st # "ok")
        => /\ last'.kind = "return"
           /\ last'.value = AllNone
           /\ page'.kind = "stopped"
           /\ NOT_FOUND_ERROR \in page'.msgs]_vars

\* C5: whenever load_data warns that the rules file could not be loaded,
\* the rules it returns are None and the page shows "No rules data
\* available.".
C5_WarningMeansNoRules ==
    (last.kind = "return" /\ RULES_WARNING \in last.msgs)
        => /\ last.value.rules.none
           /\ page.kind = "rendered" => page.rules = Placeholder(NO_RULES_DATA)

\* C6: a run that loads a directory with a readable primary table renders,
\* and the section of every optional artifact that is missing shows a
\* placeholder.
C6_MissingShowsPlaceholder ==
    [][(ScriptRuns /\ ~Cached(cache, APP_OUTPUT_DIR) /\ fs.cluster.st = "ok")
        => /\ page'.kind = "rendered"
           /\ ~Exists(fs.summary) => page'.summary.shown = "placeholder"
           /\ ~Exists(fs.rules) => page'.rules.shown = "placeholder"
           /\ ~Exists(fs.umap) => page'.map.shown = "placeholder"
           /\ ~Exists(fs.scatter) => page'.scatter.shown = "placeholder"
           /\ page'.selected \notin fs.plots => page'.plot.shown = "placeholder"]_vars

\* C9: once a load_data call for the directory has returned, every later
\* call returns that first result and reads nothing from the directory,
\* whatever has happened to the files since.
C9_CachedLoad ==
    [][(ScriptRuns /\ session.loaded)
        => /\ last'.kind = "return"
           /\ last'.value = session.value
           /\ last'.reads = {}]_vars

\* The first call found no primary table; the file is there now and the
\* call still returned the all-None result from the memo.
C9_Witness ==
    /\ last.hit
    /\ last.reads = {}
    /\ last.value = AllNone
    /\ fs.cluster.st = "ok"

\* C10, as stated: what a render pass shows is what was read at session
\* start.  (Stated for the data of load_data and the rules scatter
\* visualization; the claim says the same of the per-cluster one.)
C10_AllFromSessionStart ==
    page.kind = "rendered"
        => /\ page.data = session.value
           /\ page.scatter = session.scatter

\* C10, amended: the three tables and the global map visualization a
\* render pass shows are those load_data returned at session start.
C10_LoadedFromSessionStart ==
    page.kind = "rendered"
        => /\ page.data = session.value
           /\ page.map = MapSection(session.value.umap_html_content)
           /\ page.summary = SummarySection(session.value.summary)
           /\ \E tie \in Ties :
                page.rules = RulesSection(session.value.rules, page.selected, tie)
           /\ page.posts = PostsSection(session.value.df, page.selected)

\* A later pass: the summary and map files are gone and still shown, and
\* the scatter section differs from the one of the first pass.
C10_Witness ==
    /\ page.kind = "rendered"
    /\ ~Exists(fs.summary) /\ page.summary.shown = "content"
    /\ ~Exists(fs.umap) /\ page.map.shown = "content"
    /\ page.scatter # session.scatter

====
